---- MODULE Spec2Model ----
(***************************************************************************)
(* Model of ovn_octavia_provider/ovsdb/impl_idl_ovn.py.                    *)
(*                                                                         *)
(* The specifications share the variables of the module:                   *)
(*   SpecTxn    - callers running transactions through                     *)
(*                OvsdbNbOvnIdl.transaction against the mirrored rows      *)
(*   SpecMap    - one caller running lb_add_ip_port_mapping and            *)
(*                lb_del_ip_port_mapping commands inside transactions      *)
(*   SpecRetry  - one call of Backend.check_for_row_by_value_and_retry     *)
(*                racing with the insertion of the row it looks for        *)
(*   SpecLookup - the same call, whose first lookup may raise an error of  *)
(*                its own                                                  *)
(*   SpecIdl    - the construction of an OvnNbIdlForLb or OvnSbIdlForLb    *)
(*                handle, and start and stop calls on the latter           *)
(*   SpecRead   - is_table_present, is_col_present, find_lb_in_table and   *)
(*                get_lrs on the tables of the IDL                         *)
(*                                                                         *)
(* Strings the code inspects or builds (addresses, map keys, map values)   *)
(* are sequences of tokens, so that bracketing and joining are computed.   *)
(***************************************************************************)
EXTENDS Integers, Sequences, FiniteSets, TLC

VARIABLES
    db,         \* the mirrored rows: Load_Balancer rows and NB_Global.nb_cfg
    txn,        \* per caller: the transaction it runs through the wrapper
    opened,     \* number of transactions opened so far
    nbInit,     \* NB_Global.nb_cfg at start
    nbBumps,    \* number of committed transactions created with bump_nb_cfg
    call,       \* the check_for_row_by_value_and_retry call
    now,        \* wall clock, in seconds
    mirror,     \* the row looked for by the call: its way into the mirror
    idl,        \* an OvnNbIdlForLb or OvnSbIdlForLb connection handle
    server,     \* whether the OVSDB server of the handle can be reached
    tables,     \* the tables of the IDL: their columns and mirrored rows
    reply       \* the last read made through the API, and what it gave

vars == <<db, txn, opened, nbInit, nbBumps, call, now, mirror, idl, server,
          tables, reply>>

txnVars == <<db, txn, opened, nbInit, nbBumps>>
retryVars == <<call, now, mirror>>
idlVars == <<idl, server>>
readVars == <<tables, reply>>

----------------------------------------------------------------------------
(* Bounds *)

\* transactions opened in one behaviour
MaxTxns == 2
\* commands queued in one transaction of SpecTxn
MaxCmds == 1
\* commands queued in one transaction of SpecMap
MaxMapCmds == 2
\* failed schema retrievals while a connection handle is constructed
MaxTries == 2
\* rows mirrored in one table
MaxRows == 2
\* start and stop calls made on one connection handle
MaxCalls == 3
\* seconds a sleep may last beyond the wait asked for
MaxOvershoot == 1
\* attempts of one check_for_row_by_value_and_retry call
MaxAttempts == 6

----------------------------------------------------------------------------
(* Values *)

Callers == {"T1", "T2"}
Lbs == {"lb1", "lb2"}
NoRow == [absent |-> TRUE]
NoError == "none"
RevisionConflict == "RevisionConflict"
RowNotFound == "RowNotFound"
\* commit errors other than a revision conflict
ErrorKinds == {"RuntimeError", "TimeoutException"}

EmptyMap == [k \in {} |-> <<>>]
FreshRow == [rev |-> 0, ipm |-> EmptyMap]

\* kwargs a caller may hand to create_transaction
NoKwargs == [k \in {} |-> FALSE]
KwargsChoices == {NoKwargs, [bump_nb_cfg |-> TRUE]}

\* addresses and port names, as token sequences
BackendV4 == <<"10", ".", "0", ".", "0", ".", "1">>
BackendV6 == <<"2001", ":", "db8", ":", ":", "1">>
SourceV4 == <<"10", ".", "0", ".", "0", ".", "2">>
SourceV6 == <<"2001", ":", "db8", ":", ":", "2">>
BackendIps == {BackendV4, BackendV6}
SourceIps == {SourceV4, SourceV6}
PortNames == {<<"port-a">>}
NoStr == <<>>

\* the calls of lb_add_ip_port_mapping (lb, backend_ip, src_ip, failure of the
\* row mutation) and of lb_del_ip_port_mapping (lb, backend_ip, failure)
\* that callers make: every family combination on the mirrored row, one
\* failing mutation, and one call for the row that is not mirrored
AddInputs ==
    {<<"lb1", b, s, NoError>> : b \in BackendIps, s \in SourceIps}
    \cup {<<"lb1", BackendV6, SourceV6, "RuntimeError">>,
          <<"lb2", BackendV4, SourceV4, NoError>>}
DelInputs ==
    {<<"lb1", b, NoError>> : b \in BackendIps}
    \cup {<<"lb1", BackendV6, "RuntimeError">>, <<"lb2", BackendV4, NoError>>}

IdleTxn == [st |-> "Idle", kwargs |-> NoKwargs, bump_nb_cfg |-> FALSE,
            cmds |-> <<>>, inner |-> NoError, raised |-> NoError,
            atOpen |-> <<>>, submitted |-> FALSE]

Final == {"Committed", "AbortedConflict", "AbortedError"}

\* no read has been made
IdleReply == [op |-> "none", table |-> "", col |-> "", lb |-> "",
              result |-> <<>>, err |-> NoError]

\* tables and columns that the schema of a server may or may not have
OptionalTables == {"Load_Balancer_Health_Check"}
OptionalCols == {"load_balancer_group"}
\* names asked about
TableNames ==
    {"Logical_Router", "Logical_Switch", "NoSuchTable"} \cup OptionalTables
ColNames == {"load_balancer", "no_such_col"} \cup OptionalCols

\* the rows a table may mirror, in the order of its rows dictionary: rows
\* with some of the uuids, each referring to some load balancers
RECURSIVE RowChoices(_)
RowChoices(n) ==
    IF n = 0 THEN {<<>>}
    ELSE LET less == RowChoices(n - 1) IN
         less \cup {Append(rs, [uuid |-> n, load_balancer |-> lbs]) :
                       rs \in less, lbs \in SUBSET Lbs}

\* event_lock_name=None
None == "None"
LockNames == {None, "octavia_lock"}

\* a connection handle before __init__ runs
IdleIdl == [kind |-> "none", event_lock_name |-> None, pc |-> "idle",
            tries |-> 0, helper |-> FALSE, registered |-> <<>>,
            lock |-> None, atexit |-> FALSE,
            notify_handler |-> "none", session |-> "none",
            has_conn |-> FALSE, calls |-> 0,
            conns_opened |-> 0, conns_stopped |-> 0,
            shutdowns |-> 0, closes |-> 0]

----------------------------------------------------------------------------
(* Address normalization *)

\* n_const.IP_VERSION_6
IP_VERSION_6 == 6

\* netaddr.IPNetwork(addr).version of a valid address: 6 for an address
\* written with colons, 4 for a dotted one
IPVersion(addr) ==
    IF \E i \in DOMAIN addr : addr[i] = ":" THEN IP_VERSION_6 ELSE 4

\* f'[{addr}]'
Bracket(addr) == <<"[">> \o addr \o <<"]">>

IsBracketed(s) == Len(s) >= 2 /\ s[1] = "[" /\ s[Len(s)] = "]"

\* '%s:%s' % (port_name, src_ip)
JoinValue(port_name, src_ip) == port_name \o <<":">> \o src_ip

Cmd(op, lb) ==
    [op |-> op, lb |-> lb, backend_ip |-> NoStr, port_name |-> NoStr,
     src_ip |-> NoStr, raw_backend |-> NoStr, raw_src |-> NoStr,
     prior |-> 0, fault |-> NoError]

DelBackendFromIPPortMapping_no_bracket(lb, backend_ip) ==
    [Cmd("lb_del", lb) EXCEPT
        !.raw_backend = backend_ip,
        !.backend_ip = backend_ip]

\* DelBackendFromIPPortMapping.__init__
DelBackendFromIPPortMapping(lb, backend_ip) ==
    [Cmd("lb_del", lb) EXCEPT
        !.raw_backend = backend_ip,
        !.backend_ip = IF IPVersion(backend_ip) = IP_VERSION_6
                       THEN Bracket(backend_ip)
                       ELSE backend_ip]

AddBackendToIPPortMapping_no_bracket(lb, backend_ip, port_name, src_ip) ==
    [Cmd("lb_add", lb) EXCEPT
        !.raw_backend = backend_ip,
        !.raw_src = src_ip,
        !.port_name = port_name,
        !.backend_ip = backend_ip,
        !.src_ip = src_ip]

\* AddBackendToIPPortMapping.__init__
AddBackendToIPPortMapping(lb, backend_ip, port_name, src_ip) ==
    LET v6 == IPVersion(backend_ip) = IP_VERSION_6 IN
    [Cmd("lb_add", lb) EXCEPT
        !.raw_backend = backend_ip,
        !.raw_src = src_ip,
        !.port_name = port_name,
        !.backend_ip = IF v6 THEN Bracket(backend_ip) ELSE backend_ip,
        !.src_ip = IF v6 THEN Bracket(src_ip) ELSE src_ip]

lb_del_ip_port_mapping(lb_uuid, backend_ip) ==
    DelBackendFromIPPortMapping(lb_uuid, backend_ip)

lb_add_ip_port_mapping(lb_uuid, backend_ip, port_name, src_ip) ==
    AddBackendToIPPortMapping(lb_uuid, backend_ip, port_name, src_ip)

----------------------------------------------------------------------------
(* Commands run inside a commit, on the rows staged by the transaction.    *)
(* A run yields [db |-> staged rows, err |-> error raised or NoError].     *)

Ok(s) == [db |-> s, err |-> NoError]
Raise(s, e) == [db |-> s, err |-> e]

\* row.setkey(column, key, value): the key's value is replaced
setkey(m, key, value) ==
    [k \in DOMAIN m \cup {key} |-> IF k = key THEN value ELSE m[k]]

delkey_clear(m, key) == [k \in {} |-> m[k]]

\* row.delkey(column, key): an absent key is left absent
delkey(m, key) == [k \in DOMAIN m \ {key} |-> m[k]]

\* the body of the try: api.lookup raises when the row is absent, and the
\* mutation of the row may itself fail (c.fault)
DelBody(c, s) ==
    IF s.lb[c.lb] = NoRow THEN Raise(s, RowNotFound)
    ELSE IF c.fault # NoError THEN Raise(s, c.fault)
    ELSE Ok([s EXCEPT !.lb[c.lb].ipm = delkey(@, c.backend_ip)])

AddBody(c, s) ==
    IF s.lb[c.lb] = NoRow THEN Raise(s, RowNotFound)
    ELSE IF c.fault # NoError THEN Raise(s, c.fault)
    ELSE Ok([s EXCEPT !.lb[c.lb].ipm =
                setkey(@, c.backend_ip, JoinValue(c.port_name, c.src_ip))])

\* DelBackendFromIPPortMapping.run_idl: try ... except Exception: LOG.exception
DelBackendFromIPPortMapping_run_idl(c, s) ==
    LET r == DelBody(c, s) IN IF r.err # NoError THEN Ok(s) ELSE r

AddBackendToIPPortMapping_run_idl_no_except(c, s) == AddBody(c, s)

\* AddBackendToIPPortMapping.run_idl: try ... except Exception: LOG.exception
AddBackendToIPPortMapping_run_idl(c, s) ==
    LET r == AddBody(c, s) IN IF r.err # NoError THEN Ok(s) ELSE r

RevUpdate_run_idl_any_row(c, s) ==
    IF s.lb[c.lb] = NoRow THEN Raise(s, RowNotFound)
    ELSE IF \E l \in Lbs : s.lb[l] # NoRow /\ s.lb[l].rev # c.prior
    THEN Raise(s, RevisionConflict)
    ELSE Ok([s EXCEPT !.lb[c.lb].rev = c.prior + 1])

\* a mutation checked against the revision it is based on: a revision
\* conflict when the row's revision is no longer the expected prior one
RevUpdate_run_idl(c, s) ==
    IF s.lb[c.lb] = NoRow THEN Raise(s, RowNotFound)
    ELSE IF s.lb[c.lb].rev # c.prior THEN Raise(s, RevisionConflict)
    ELSE Ok([s EXCEPT !.lb[c.lb].rev = c.prior + 1])

\* an unrelated mutation of a row, queued in the same transaction
Touch_run_idl(c, s) ==
    IF s.lb[c.lb] = NoRow THEN Raise(s, RowNotFound)
    ELSE Ok([s EXCEPT !.lb[c.lb].rev = @ + 1])

\* an operation the server rejects
Reject_run_idl(c, s) == Raise(s, c.fault)

run_idl(c, s) ==
    CASE c.op = "lb_add" -> AddBackendToIPPortMapping_run_idl(c, s)
      [] c.op = "lb_del" -> DelBackendFromIPPortMapping_run_idl(c, s)
      [] c.op = "rev_update" -> RevUpdate_run_idl(c, s)
      [] c.op = "touch" -> Touch_run_idl(c, s)
      [] c.op = "reject" -> Reject_run_idl(c, s)

----------------------------------------------------------------------------
(* Transactions *)

\* the caller passed bump_nb_cfg=True
RequestsBump(kwargs) ==
    "bump_nb_cfg" \in DOMAIN kwargs /\ kwargs["bump_nb_cfg"]

\* OvnNbTransaction.__init__: kwargs.pop('bump_nb_cfg', False)
OvnNbTransaction(kwargs, dbNow) ==
    [IdleTxn EXCEPT
        !.st = "Open",
        !.kwargs = kwargs,
        !.bump_nb_cfg = IF "bump_nb_cfg" \in DOMAIN kwargs
                        THEN kwargs.bump_nb_cfg
                        ELSE FALSE,
        !.atOpen = dbNow]

\* OvsdbNbOvnIdl.create_transaction
create_transaction(kwargs, dbNow) == OvnNbTransaction(kwargs, dbNow)

pre_commit_always(tx, s) == [s EXCEPT !.nb_cfg = @ + 1]

pre_commit_inverted(tx, s) ==
    IF tx.bump_nb_cfg THEN s ELSE [s EXCEPT !.nb_cfg = @ + 1]

\* OvnNbTransaction.pre_commit: nb_global.increment('nb_cfg') in the
\* transaction being committed
pre_commit(tx, s) ==
    IF ~tx.bump_nb_cfg THEN s ELSE [s EXCEPT !.nb_cfg = @ + 1]

\* the commands of a transaction run in order on the staged rows; the first
\* error ends the run
RECURSIVE RunCommands(_, _)
RunCommands(cmds, s) ==
    IF cmds = <<>> THEN Ok(s)
    ELSE LET r == run_idl(Head(cmds), s) IN
         IF r.err # NoError THEN r ELSE RunCommands(Tail(cmds), r.db)

\* the commit of the underlying transaction: pre_commit, then the commands,
\* submitted as one atomic unit; an error leaves the rows as they were
do_commit(tx, s) ==
    LET r == RunCommands(tx.cmds, pre_commit(tx, s)) IN
    IF r.err # NoError THEN Raise(s, r.err) ELSE r

transaction_no_except(err) == err

transaction_except_all(err) == NoError

\* OvsdbNbOvnIdl.transaction: except ovn_exc.RevisionConflict -> logged;
\* what the caller observes of an error raised inside the with block
transaction(err) == IF err = RevisionConflict THEN NoError ELSE err

Outcome(err) ==
    CASE err = NoError -> "Committed"
      [] err = RevisionConflict -> "AbortedConflict"
      [] OTHER -> "AbortedError"

\* txn.add(command)
Queue(t, c) ==
    /\ txn[t].st = "Open"
    /\ txn' = [txn EXCEPT ![t].cmds = Append(@, c)]
    /\ UNCHANGED <<db, opened, nbInit, nbBumps, retryVars, idlVars, readVars>>

BeginWith(t, choices) ==
    /\ txn[t].st \in {"Idle"} \cup Final
    /\ opened < MaxTxns
    /\ \E kwargs \in choices :
          txn' = [txn EXCEPT ![t] = create_transaction(kwargs, db)]
    /\ opened' = opened + 1
    /\ UNCHANGED <<db, nbInit, nbBumps, retryVars, idlVars, readVars>>

\* a caller enters `with nb_api.transaction(**kwargs) as t`
Begin(t) == BeginWith(t, KwargsChoices)

\* a caller enters `with nb_api.transaction() as t`
BeginDefault(t) == BeginWith(t, {NoKwargs})

\* the caller queues a mutation of a row based on a revision it has seen
QueueRevUpdate(t) ==
    /\ Len(txn[t].cmds) < MaxCmds
    /\ \E lb \in Lbs :
         \E prior \in (IF db.lb[lb] = NoRow THEN {0} ELSE 0..db.lb[lb].rev) :
           Queue(t, [Cmd("rev_update", lb) EXCEPT !.prior = prior])

\* the caller queues an operation that the server will reject
QueueReject(t) ==
    /\ Len(txn[t].cmds) < MaxCmds
    /\ \E kind \in ErrorKinds :
         Queue(t, [Cmd("reject", "lb1") EXCEPT !.fault = kind])

\* the body of the with block raises: the underlying context does not
\* commit, and the wrapper sees the exception
BodyRaise(t) ==
    /\ txn[t].st = "Open"
    /\ \E err \in ErrorKinds \cup {RevisionConflict} :
          txn' = [txn EXCEPT ![t] = [@ EXCEPT
                     !.st = Outcome(err),
                     !.inner = err,
                     !.raised = transaction(err)]]
    /\ UNCHANGED <<db, opened, nbInit, nbBumps, retryVars, idlVars, readVars>>

\* the with block ends normally: the underlying context commits, and the
\* wrapper sees what commit raised (a transaction with no command has
\* nothing to submit and is left out; commit raises the errors it meets)
Commit(t) ==
    /\ txn[t].st = "Open"
    /\ txn[t].cmds # <<>>
    /\ LET r == do_commit(txn[t], db) IN
         /\ db' = r.db
         /\ txn' = [txn EXCEPT ![t] = [@ EXCEPT
                      !.st = Outcome(r.err),
                      !.inner = r.err,
                      !.raised = transaction(r.err),
                      !.submitted = TRUE]]
         /\ nbBumps' = IF r.err = NoError /\ RequestsBump(txn[t].kwargs)
                       THEN nbBumps + 1
                       ELSE nbBumps
    /\ UNCHANGED <<opened, nbInit, retryVars, idlVars, readVars>>

\* the caller queues lb_add_ip_port_mapping; on a row that exists the
\* mutation of the row may fail
QueueAdd(t) ==
    /\ Len(txn[t].cmds) < MaxMapCmds
    /\ \E i \in AddInputs, port_name \in PortNames :
         Queue(t, [lb_add_ip_port_mapping(i[1], i[2], port_name, i[3])
                      EXCEPT !.fault = i[4]])

\* the caller queues lb_del_ip_port_mapping
QueueDel(t) ==
    /\ Len(txn[t].cmds) < MaxMapCmds
    /\ \E i \in DelInputs :
         Queue(t, [lb_del_ip_port_mapping(i[1], i[2]) EXCEPT !.fault = i[3]])

\* the caller queues an unrelated mutation of a Load_Balancer row
QueueTouch(t) ==
    /\ Len(txn[t].cmds) < MaxMapCmds
    /\ \E lb \in Lbs : Queue(t, Cmd("touch", lb))

----------------------------------------------------------------------------
(* Backend.check_for_row_by_value_and_retry(table, column, match)          *)

\* stop=tenacity.stop_after_delay(10)
StopDelay == 10

\* errors other than RowNotFound that a lookup may raise: one that is not a
\* RuntimeError (the table is not in the IDL), and one that is (the rows
\* dictionary changes while the lookup iterates over it)
LookupErrors == {"KeyError", "RuntimeError"}

\* idlutils.row_by_value on the mirror; fault is the error the lookup
\* itself meets, if any
row_by_value(m, fault) ==
    IF fault # NoError THEN fault
    ELSE IF m.st = "propagated" THEN "found"
    ELSE RowNotFound

\* the decorated function: RowNotFound is raised again as RuntimeError, any
\* other error of the lookup leaves the function as it is
check_body(m, fault) ==
    LET found == row_by_value(m, fault) IN
    IF found = RowNotFound THEN "RuntimeError"
    ELSE IF found = "found" THEN NoError
    ELSE found

retry_never(err) == FALSE

\* retry=tenacity.retry_if_exception_type(RuntimeError)
retry_if_exception_type(err) == err = "RuntimeError"

\* wait=tenacity.wait_exponential(): 1, 2, 4, ... seconds
wait_exponential(attempt_number) == 2 ^ (attempt_number - 1)

stop_never(seconds_since_start) == FALSE

\* stop=tenacity.stop_after_delay(10), on the seconds since the call started
stop_after_delay(seconds_since_start) == seconds_since_start >= StopDelay

\* one attempt: the lookup, and what the retry decorator makes of its result
Attempt ==
    /\ call.pc = "running"
    /\ LET fault == IF call.attempt = 1 THEN call.fault ELSE NoError
           looked == row_by_value(mirror, fault)
           err == check_body(mirror, fault)
       IN
         IF err = NoError
         THEN call' = [call EXCEPT !.pc = "returned", !.lookup = looked]
         ELSE IF ~retry_if_exception_type(err)
                 \/ stop_after_delay(now - call.start)
         THEN call' = [call EXCEPT !.pc = "raised", !.raised = err,
                                   !.lookup = looked]
         ELSE /\ call.attempt < MaxAttempts
              /\ call' = [call EXCEPT
                     !.pc = "sleeping",
                     !.lookup = looked,
                     !.wakeAt = now + wait_exponential(call.attempt)]
    /\ UNCHANGED <<now, mirror, txnVars, idlVars, readVars>>

\* the sleep between two attempts ends
Wake ==
    /\ call.pc = "sleeping"
    /\ now >= call.wakeAt
    /\ call' = [call EXCEPT !.pc = "running", !.attempt = @ + 1]
    /\ UNCHANGED <<now, mirror, txnVars, idlVars, readVars>>

\* a second passes while the call sleeps
Tick ==
    /\ call.pc = "sleeping"
    /\ now < call.wakeAt + MaxOvershoot
    /\ now' = now + 1
    /\ UNCHANGED <<call, mirror, txnVars, idlVars, readVars>>

\* the transaction inserting the row commits on the server
InsertCommit ==
    /\ mirror.st = "absent"
    /\ mirror' = [mirror EXCEPT !.st = "committed"]
    /\ UNCHANGED <<call, now, txnVars, idlVars, readVars>>

\* the mirror receives the inserted row
Propagate ==
    /\ mirror.st = "committed"
    /\ mirror' = [st |-> "propagated", at |-> now]
    /\ UNCHANGED <<call, now, txnVars, idlVars, readVars>>

----------------------------------------------------------------------------
(* OvnNbIdlForLb and OvnSbIdlForLb: construction, start and stop           *)

\* OvnNbIdlForLb.TABLES and OvnSbIdlForLb.TABLES
TABLES(kind) ==
    IF kind = "NB"
    THEN <<"Logical_Switch", "Load_Balancer", "Load_Balancer_Health_Check",
           "Logical_Router", "Logical_Switch_Port", "Logical_Router_Port",
           "Gateway_Chassis", "NAT", "HA_Chassis_Group">>
    ELSE <<"Load_Balancer", "Service_Monitor">>

\* utils.retry(): whether the decorator gives up after a failed call
utils_retry_gives_up(tries) == FALSE

\* _get_ovsdb_helper fails while the server cannot be reached; the call is
\* made again
GetOvsdbHelperFails ==
    /\ idl.pc = "get_helper"
    /\ ~server
    /\ idl.tries < MaxTries
    /\ idl' = IF utils_retry_gives_up(idl.tries + 1)
              THEN [idl EXCEPT !.pc = "failed", !.tries = @ + 1]
              ELSE [idl EXCEPT !.tries = @ + 1]
    /\ UNCHANGED <<server, txnVars, retryVars, readVars>>

\* _get_ovsdb_helper returns the schema helper
GetOvsdbHelper ==
    /\ idl.pc = "get_helper"
    /\ server
    /\ idl' = [idl EXCEPT !.helper = TRUE, !.pc = "register"]
    /\ UNCHANGED <<server, txnVars, retryVars, readVars>>

\* for table in TABLES: helper.register_table(table)
RegisterTable ==
    /\ idl.pc = "register"
    /\ LET n == Len(idl.registered) IN
         IF n < Len(TABLES(idl.kind))
         THEN idl' = [idl EXCEPT
                        !.registered = Append(@, TABLES(idl.kind)[n + 1])]
         ELSE idl' = [idl EXCEPT !.pc = "idl_init"]
    /\ UNCHANGED <<server, txnVars, retryVars, readVars>>

set_lock_never(self) == self

\* if self.event_lock_name: self.set_lock(self.event_lock_name)
set_lock(self) ==
    IF self.event_lock_name # None
    THEN [self EXCEPT !.lock = self.event_lock_name]
    ELSE self

\* the rest of __init__: the IDL session and its notify handler are set
\* up by super().__init__, the lock is requested, and OvnSbIdlForLb
\* registers stop with atexit
IdlInit ==
    /\ idl.pc = "idl_init"
    /\ idl' = [set_lock(idl) EXCEPT
                 !.pc = "constructed",
                 !.notify_handler = "running",
                 !.session = "open",
                 !.atexit = (idl.kind = "SB")]
    /\ UNCHANGED <<server, txnVars, retryVars, readVars>>

\* OvnSbIdlForLb.start
SbStart ==
    /\ idl.pc = "constructed"
    /\ idl.kind = "SB"
    /\ idl.calls < MaxCalls
    /\ idl' = [idl EXCEPT
                 !.has_conn = TRUE,
                 !.conns_opened = @ + 1,
                 !.calls = @ + 1]
    /\ UNCHANGED <<server, txnVars, retryVars, readVars>>

\* OvnSbIdlForLb.stop, called by the owner or by atexit
SbStop ==
    /\ idl.pc = "constructed"
    /\ idl.kind = "SB"
    /\ idl.calls < MaxCalls
    /\ idl' = [idl EXCEPT
                 !.has_conn = FALSE,
                 !.conns_stopped = IF idl.has_conn THEN @ + 1 ELSE @,
                 !.notify_handler = "shutdown",
                 !.shutdowns = @ + 1,
                 !.session = "closed",
                 !.closes = @ + 1,
                 !.calls = @ + 1]
    /\ UNCHANGED <<server, txnVars, retryVars, readVars>>

\* the server becomes reachable, or stops being so
ServerFlips ==
    /\ idl.pc = "get_helper"
    /\ server' = ~server
    /\ UNCHANGED <<idl, txnVars, retryVars, readVars>>

----------------------------------------------------------------------------
(* Reads: Backend.is_table_present, Backend.is_col_present and the          *)
(* read-only commands. A read yields [val |-> value, err |-> error raised]. *)

Ret(v) == [val |-> v, err |-> NoError]

\* self._tables[table_name]: KeyError for a table that is not there
GetItem(tabs, table_name) ==
    IF table_name \in DOMAIN tabs THEN Ret(tabs[table_name])
    ELSE [val |-> <<>>, err |-> "KeyError"]

\* Backend.is_table_present
is_table_present(tabs, table_name) == Ret(table_name \in DOMAIN tabs)

is_col_present_unguarded(tabs, table_name, col_name) ==
    LET t == GetItem(tabs, table_name) IN
    IF t.err # NoError THEN t ELSE Ret(col_name \in t.val.columns)

\* Backend.is_col_present: `and` evaluates its right operand only when the
\* table is present
is_col_present(tabs, table_name, col_name) ==
    IF ~is_table_present(tabs, table_name).val THEN Ret(FALSE)
    ELSE LET t == GetItem(tabs, table_name) IN
         IF t.err # NoError THEN t ELSE Ret(col_name \in t.val.columns)

\* rowview.RowView(item)
RowView(item) == [_row |-> item]

\* [rowview.RowView(item) for item in rows]
RowViews(rows) == [i \in DOMAIN rows |-> RowView(rows[i])]

FindLbInTableCommand_run_idl_no_filter(tabs, lb, table) ==
    LET t == GetItem(tabs, table)
        keep(item) == TRUE
    IN IF t.err # NoError THEN t ELSE Ret(RowViews(SelectSeq(t.val.rows, keep)))

\* FindLbInTableCommand.run_idl
FindLbInTableCommand_run_idl(tabs, lb, table) ==
    LET t == GetItem(tabs, table)
        keep(item) == lb \in item.load_balancer
    IN IF t.err # NoError THEN t ELSE Ret(RowViews(SelectSeq(t.val.rows, keep)))

\* GetLrsCommand.run_idl
GetLrsCommand_run_idl(tabs) ==
    LET t == GetItem(tabs, "Logical_Router")
        keep(item) == TRUE
    IN IF t.err # NoError THEN t ELSE Ret(RowViews(SelectSeq(t.val.rows, keep)))

\* what the caller of a read has in hand
Reply(op, table, col, lb, r) ==
    [op |-> op, table |-> table, col |-> col, lb |-> lb,
     result |-> r.val, err |-> r.err]

IsTablePresent ==
    /\ reply = IdleReply
    /\ \E name \in TableNames :
          reply' = Reply("is_table_present", name, "", "",
                         is_table_present(tables, name))
    /\ UNCHANGED <<tables, txnVars, retryVars, idlVars>>

IsColPresent ==
    /\ reply = IdleReply
    /\ \E name \in TableNames, col \in ColNames :
          reply' = Reply("is_col_present", name, col, "",
                         is_col_present(tables, name, col))
    /\ UNCHANGED <<tables, txnVars, retryVars, idlVars>>

\* nb_api.find_lb_in_table(lb, table).execute()
FindLbInTable ==
    /\ reply = IdleReply
    /\ \E lb \in Lbs, table \in {"Logical_Router", "Logical_Switch"} :
          reply' = Reply("find_lb_in_table", table, "", lb,
                         FindLbInTableCommand_run_idl(tables, lb, table))
    /\ UNCHANGED <<tables, txnVars, retryVars, idlVars>>

\* nb_api.get_lrs().execute()
GetLrs ==
    /\ reply = IdleReply
    /\ reply' = Reply("get_lrs", "Logical_Router", "", "",
                      GetLrsCommand_run_idl(tables))
    /\ UNCHANGED <<tables, txnVars, retryVars, idlVars>>

----------------------------------------------------------------------------
(* Specifications *)

NoIdl ==
    /\ idl = IdleIdl
    /\ server = TRUE

NoRead ==
    /\ tables = [t \in {} |-> <<>>]
    /\ reply = IdleReply

InitCommon ==
    /\ NoIdl
    /\ NoRead
    /\ nbInit = db.nb_cfg
    /\ nbBumps = 0
    /\ txn = [t \in Callers |-> IdleTxn]
    /\ opened = 0

\* fault: the error that the first lookup of the call meets, if any;
\* lookup: what the last lookup gave
IdleCall == [pc |-> "idle", attempt |-> 0, start |-> 0, wakeAt |-> 0,
             raised |-> NoError, fault |-> NoError, lookup |-> "none"]

NoCall ==
    /\ call = IdleCall
    /\ now = 0
    /\ mirror = [st |-> "absent", at |-> 0]

\* both Load_Balancer rows are mirrored
InitTxn ==
    /\ db = [lb |-> [l \in Lbs |-> FreshRow], nb_cfg |-> 7]
    /\ InitCommon
    /\ NoCall

\* lb1 is mirrored, lb2 is not
InitMap ==
    /\ db = [lb |-> [l \in Lbs |-> IF l = "lb1" THEN FreshRow ELSE NoRow],
             nb_cfg |-> 7]
    /\ InitCommon
    /\ NoCall

NextTxn ==
    \E t \in Callers :
        \/ Begin(t)
        \/ QueueRevUpdate(t)
        \/ QueueReject(t)
        \/ BodyRaise(t)
        \/ Commit(t)

SpecTxn == InitTxn /\ [][NextTxn]_vars

NextMap ==
    \/ BeginDefault("T1")
    \/ QueueAdd("T1")
    \/ QueueDel("T1")
    \/ QueueTouch("T1")
    \/ Commit("T1")

SpecMap == InitMap /\ [][NextMap]_vars

\* the call has been made; the row is not in the mirror yet
InitRetry ==
    /\ db = [lb |-> [l \in Lbs |-> FreshRow], nb_cfg |-> 7]
    /\ InitCommon
    /\ call = [IdleCall EXCEPT !.pc = "running", !.attempt = 1]
    /\ now = 0
    /\ mirror \in {[st |-> "absent", at |-> 0], [st |-> "propagated", at |-> 0]}

NextRetry ==
    \/ Attempt
    \/ Wake
    \/ Tick
    \/ InsertCommit
    \/ Propagate

SpecRetry == InitRetry /\ [][NextRetry]_vars

\* the calling thread runs, and time passes
FairSpecRetry ==
    SpecRetry /\ WF_vars(Attempt) /\ WF_vars(Wake) /\ WF_vars(Tick)

\* the call has been made; its first lookup may meet an error of its own
InitLookup ==
    /\ db = [lb |-> [l \in Lbs |-> FreshRow], nb_cfg |-> 7]
    /\ InitCommon
    /\ \E fault \in LookupErrors \cup {NoError} :
          call = [IdleCall EXCEPT !.pc = "running", !.attempt = 1,
                                  !.fault = fault]
    /\ now = 0
    /\ mirror \in {[st |-> "absent", at |-> 0], [st |-> "propagated", at |-> 0]}

SpecLookup == InitLookup /\ [][NextRetry]_vars

\* a handle is being constructed, with or without a lock name
InitIdl ==
    /\ db = [lb |-> [l \in Lbs |-> FreshRow], nb_cfg |-> 7]
    /\ nbInit = db.nb_cfg
    /\ nbBumps = 0
    /\ txn = [t \in Callers |-> IdleTxn]
    /\ opened = 0
    /\ NoCall
    /\ NoRead
    /\ \E kind \in {"NB", "SB"}, name \in LockNames :
          idl = [IdleIdl EXCEPT !.kind = kind, !.event_lock_name = name,
                                !.pc = "get_helper"]
    /\ server \in BOOLEAN

NextIdl ==
    \/ GetOvsdbHelperFails
    \/ GetOvsdbHelper
    \/ RegisterTable
    \/ IdlInit
    \/ SbStart
    \/ SbStop
    \/ ServerFlips

SpecIdl == InitIdl /\ [][NextIdl]_vars

\* the IDL mirrors Logical_Router and Logical_Switch, each with some rows;
\* the schema of the server may have the optional table and column
InitRead ==
    /\ db = [lb |-> [l \in Lbs |-> FreshRow], nb_cfg |-> 7]
    /\ nbInit = db.nb_cfg
    /\ nbBumps = 0
    /\ txn = [t \in Callers |-> IdleTxn]
    /\ opened = 0
    /\ NoCall
    /\ NoIdl
    /\ reply = IdleReply
    /\ \E opt \in SUBSET OptionalTables, cols \in SUBSET OptionalCols :
       \E lrs \in RowChoices(MaxRows), lss \in RowChoices(MaxRows) :
          tables =
            [t \in {"Logical_Router", "Logical_Switch"} \cup opt |->
               CASE t = "Logical_Router" ->
                      [columns |-> {"name", "load_balancer"} \cup cols,
                       rows |-> lrs]
                 [] t = "Logical_Switch" ->
                      [columns |-> {"name", "load_balancer"}, rows |-> lss]
                 [] OTHER -> [columns |-> {"name"}, rows |-> <<>>]]

NextRead ==
    \/ IsTablePresent
    \/ IsColPresent
    \/ FindLbInTable
    \/ GetLrs

SpecRead == InitRead /\ [][NextRead]_vars

----------------------------------------------------------------------------
(* Claims on transactions (SpecTxn) *)

RevUpdateCmd(lb, prior) == [Cmd("rev_update", lb) EXCEPT !.prior = prior]

\* t ran a transaction that only mutates row lb, based on the revision the
\* row had when the transaction was opened, and its commit was attempted
MutatesOnRevision(t, lb, prior) ==
    /\ txn[t].st \in Final
    /\ txn[t].submitted
    /\ txn[t].cmds = <<RevUpdateCmd(lb, prior)>>
    /\ txn[t].atOpen.lb[lb].rev = prior

\* C1: of two transactions opened through the wrapper that both mutate the
\* same row based on the same prior revision, exactly one commits; the other
\* is a clean abort: no error reaches its caller and its mutation is not
\* applied (the row is one revision past the prior one).
C1_ExactlyOneCommits ==
    \A t1, t2 \in Callers : \A lb \in Lbs : \A prior \in 0..(MaxTxns * MaxCmds) :
        (t1 # t2 /\ MutatesOnRevision(t1, lb, prior)
                 /\ MutatesOnRevision(t2, lb, prior))
        => /\ {txn[t1].st, txn[t2].st} = {"Committed", "AbortedConflict"}
           /\ txn[t1].raised = NoError
           /\ txn[t2].raised = NoError
           /\ db.lb[lb].rev = prior + 1

C1_Witness ==
    /\ MutatesOnRevision("T1", "lb1", 0)
    /\ MutatesOnRevision("T2", "lb1", 0)
    /\ txn["T1"].st = "AbortedConflict"
    /\ txn["T2"].st = "Committed"

\* t's commit is attempted in this step
Commits(t) == txn[t].st = "Open" /\ txn'[t].submitted

\* C2 as stated: when commit fails with a revision conflict the caller
\* observes no exception, the transaction ends AbortedConflict, and the
\* mirrored rows are exactly as they were before the transaction was opened.
C2_RowsAsWhenOpened ==
    [][\A t \in Callers :
          (Commits(t) /\ txn'[t].inner = RevisionConflict)
          => /\ txn'[t].raised = NoError
             /\ txn'[t].st = "AbortedConflict"
             /\ db' = txn[t].atOpen]_vars

\* C2 amended: when commit fails with a revision conflict the caller
\* observes no exception, the transaction ends AbortedConflict, and the
\* mirrored rows are exactly as they were before the commit was attempted
\* (what other transactions committed since it was opened remains).
C2_ConflictIsCleanAbort ==
    [][\A t \in Callers :
          (Commits(t) /\ txn'[t].inner = RevisionConflict)
          => /\ txn'[t].raised = NoError
             /\ txn'[t].st = "AbortedConflict"
             /\ db' = db]_vars

C2_Witness ==
    \E t \in Callers :
        /\ txn[t].submitted
        /\ txn[t].inner = RevisionConflict
        /\ txn[t].st = "AbortedConflict"
        /\ txn[t].raised = NoError
        /\ db # txn[t].atOpen

\* C3: a commit error that is not a revision conflict reaches the caller
\* with the same error kind, and the transaction ends AbortedError.
C3_OtherErrorsPropagate ==
    \A t \in Callers :
        (txn[t].submitted /\ txn[t].inner \notin {NoError, RevisionConflict})
        => /\ txn[t].raised = txn[t].inner
           /\ txn[t].st = "AbortedError"

C3_Witness ==
    /\ txn["T1"].submitted
    /\ txn["T1"].raised = "TimeoutException"
    /\ txn["T2"].submitted
    /\ txn["T2"].raised = "RuntimeError"

\* C4: NB_Global.nb_cfg is its initial value plus the number of committed
\* transactions created with bump_nb_cfg=True; a transaction created without
\* it leaves the counter as it is.
C4_CounterCountsBumps == db.nb_cfg = nbInit + nbBumps

C4_Witness ==
    /\ nbBumps = 1
    /\ \E t \in Callers :
          txn[t].st = "Committed" /\ RequestsBump(txn[t].kwargs)
    /\ \E t \in Callers :
          txn[t].st = "Committed" /\ txn[t].kwargs = NoKwargs

\* C5: for a transaction created with bump_nb_cfg=True, a commit that fails
\* (revision conflict or other error) leaves the counter as it is, and the
\* counter changes in a commit step iff the rows change in it.
C5_BumpIsAtomic ==
    [][\A t \in Callers :
          (Commits(t) /\ RequestsBump(txn[t].kwargs))
          => /\ txn'[t].inner # NoError => db'.nb_cfg = db.nb_cfg
             /\ db'.nb_cfg # db.nb_cfg <=> db'.lb # db.lb]_vars

C5_Witness ==
    \E t \in Callers :
        /\ txn[t].submitted
        /\ RequestsBump(txn[t].kwargs)
        /\ txn[t].st = "AbortedError"
        /\ db.nb_cfg = nbInit

\* every command of t mutates a row of its own, on the revision the row had
\* when t was opened, and no transaction has changed that row since: the
\* rows t mutates are disjoint from those of the transactions that ran
\* while it was open
NoRealConflict(t) ==
    /\ \A i \in DOMAIN txn[t].cmds :
          LET c == txn[t].cmds[i] IN
          /\ c.op = "rev_update"
          /\ c.prior = txn[t].atOpen.lb[c.lb].rev
          /\ db.lb[c.lb] = txn[t].atOpen.lb[c.lb]
    /\ \A i, j \in DOMAIN txn[t].cmds :
          i # j => txn[t].cmds[i].lb # txn[t].cmds[j].lb

BodyRaises(t) ==
    /\ txn[t].st = "Open"
    /\ txn'[t].st \in Final
    /\ ~txn'[t].submitted

\* C18: a revision conflict raised by the code in the body of the with
\* block, before commit, is swallowed by the wrapper as well: no error
\* reaches the caller, the transaction is not submitted, and none of the
\* operations queued so far is applied.
C18_ConflictInBodyIsSwallowed ==
    [][\A t \in Callers :
          (BodyRaises(t) /\ txn'[t].inner = RevisionConflict)
          => /\ txn'[t].raised = NoError
             /\ txn'[t].st = "AbortedConflict"
             /\ txn'[t].cmds = txn[t].cmds
             /\ db' = db]_vars

C18_Witness ==
    \E t \in Callers :
        /\ txn[t].st = "AbortedConflict"
        /\ ~txn[t].submitted
        /\ txn[t].cmds # <<>>
        /\ txn[t].raised = NoError
        /\ db = txn[t].atOpen

----------------------------------------------------------------------------
(* Claims on check_for_row_by_value_and_retry (FairSpecRetry) *)

\* C6: when the row is never inserted the call ends, raising the error of
\* the last failed lookup; it neither blocks forever nor returns.
C6_RaisesWhenNeverInserted ==
    ([](mirror.st # "propagated"))
    => <>(call.pc = "raised" /\ call.raised = "RuntimeError"
                             /\ now - call.start >= StopDelay)

C6_Witness ==
    /\ call.pc = "raised"
    /\ call.raised = "RuntimeError"
    /\ call.attempt = 5
    /\ mirror.st = "absent"

\* C7: when the inserted row reaches the mirror before the 10 seconds of
\* the call are over, the call returns: a lookup that did not find the row
\* is tried again.
C7_ReturnsWhenInsertedInTime ==
    (mirror.st = "propagated" /\ mirror.at - call.start < StopDelay)
    ~> (call.pc = "returned")

C7_Witness ==
    /\ call.pc = "returned"
    /\ call.attempt > 1
    /\ mirror.at > 0
    /\ mirror.at - call.start < StopDelay

\* C19: the call retries only when the lookup reports that the row was not
\* found: a lookup that raises any other error ends the call at the first
\* attempt with that error, and a lookup that finds the row ends the call
\* with a return.
C19_RetriesOnlyOnNotFound ==
    /\ call.lookup = "found" => call.pc = "returned"
    /\ call.lookup \in LookupErrors
       => /\ call.pc = "raised"
          /\ call.raised = call.lookup
          /\ call.attempt = 1

----------------------------------------------------------------------------
(* Claims on the ip_port_mappings commands (SpecMap) *)

RepresentsIPv6(s) == \E i \in DOMAIN s : s[i] = ":"

\* the source address inside a value "port_name:src_ip"
RECURSIVE AfterFirstColon(_)
AfterFirstColon(v) ==
    IF v = <<>> THEN <<>>
    ELSE IF Head(v) = ":" THEN Tail(v)
    ELSE AfterFirstColon(Tail(v))

MirroredLbs == {lb \in Lbs : db.lb[lb] # NoRow}

\* C8: in every entry written by lb_add_ip_port_mapping the key is bracketed
\* iff backend_ip is IPv6 and the source address inside the value is
\* bracketed iff src_ip is IPv6, whatever the combination of families.
C8_IndependentNormalization ==
    \A lb \in MirroredLbs : \A k \in DOMAIN db.lb[lb].ipm :
        LET src == AfterFirstColon(db.lb[lb].ipm[k]) IN
        /\ IsBracketed(k) <=> RepresentsIPv6(k)
        /\ IsBracketed(src) <=> RepresentsIPv6(src)

\* the key either command is to use for a backend address
NormalizedKey(backend_ip) ==
    IF RepresentsIPv6(backend_ip) THEN <<"[">> \o backend_ip \o <<"]">>
    ELSE backend_ip

\* C9: every key of ip_port_mappings that represents an IPv6 address is
\* bracketed and no key that represents an IPv4 address is; the add and the
\* delete command use the same normalized key for a backend address.
C9_KeysNormalized ==
    /\ \A lb \in MirroredLbs : \A k \in DOMAIN db.lb[lb].ipm :
          IsBracketed(k) <=> RepresentsIPv6(k)
    /\ \A t \in Callers : \A i \in DOMAIN txn[t].cmds :
          LET c == txn[t].cmds[i] IN
          c.op \in {"lb_add", "lb_del"}
          => c.backend_ip = NormalizedKey(c.raw_backend)

C9_Witness ==
    /\ DOMAIN db.lb["lb1"].ipm = {Bracket(BackendV6), BackendV4}
    /\ \E i \in DOMAIN txn["T1"].cmds :
          /\ txn["T1"].cmds[i].op = "lb_del"
          /\ txn["T1"].cmds[i].raw_backend = BackendV6

\* the command is a map command that fails on these rows
FailsOn(c, rows) ==
    /\ c.op \in {"lb_add", "lb_del"}
    /\ rows.lb[c.lb] = NoRow \/ c.fault # NoError

\* C10: a map command that fails inside a transaction (row not found, or
\* the map mutation fails) does not abort it: the commit ends as that of the
\* same transaction without the failing map commands, so every other
\* mutation queued in it is committed, and no error reaches the caller.
C10_MapFailureIsContained ==
    [][\A t \in Callers :
          (Commits(t) /\ \E i \in DOMAIN txn[t].cmds :
                             FailsOn(txn[t].cmds[i], db))
          => LET Succeeds(c) == ~FailsOn(c, db)
                 rest == SelectSeq(txn[t].cmds, Succeeds)
                 want == RunCommands(rest, pre_commit(txn[t], db))
             IN /\ txn'[t].inner = want.err
                /\ txn'[t].raised = want.err
                /\ want.err = NoError => txn'[t].st = "Committed" /\ db' = want.db
                /\ want.err # NoError => db' = db]_vars

C10_Witness ==
    /\ txn["T1"].st = "Committed"
    /\ \E i, j \in DOMAIN txn["T1"].cmds :
          /\ FailsOn(txn["T1"].cmds[i], db)
          /\ txn["T1"].cmds[j].op = "touch"
    /\ db.lb["lb1"].rev = txn["T1"].atOpen.lb["lb1"].rev + 1

\* the command removes, without failing, a key that the mirrored row of its
\* load balancer does not hold
DelOfAbsentKey(c, rows) ==
    /\ c.op = "lb_del"
    /\ c.fault = NoError
    /\ rows.lb[c.lb] # NoRow
    /\ NormalizedKey(c.raw_backend) \notin DOMAIN rows.lb[c.lb].ipm

\* C11: lb_del_ip_port_mapping for a backend address whose normalized key
\* is not in the ip_port_mappings of the row completes without raising and
\* leaves the map, and every other column and row, as it is.
C11_DelAbsentKeyIsNoOp ==
    [][\A t \in Callers :
          (Commits(t) /\ \A i \in DOMAIN txn[t].cmds :
                             DelOfAbsentKey(txn[t].cmds[i], db))
          => /\ txn'[t].inner = NoError
             /\ txn'[t].raised = NoError
             /\ txn'[t].st = "Committed"
             /\ db' = db]_vars

C11_Witness ==
    /\ txn["T1"].st = "Committed"
    /\ txn["T1"].cmds = <<lb_del_ip_port_mapping("lb1", BackendV4)>>
    /\ DOMAIN db.lb["lb1"].ipm = {Bracket(BackendV6)}
    /\ db = txn["T1"].atOpen

\* the positions in cmds of the map commands that act, without failing, on
\* the row of lb for the backend address b as the caller wrote it
ActsOn(cmds, lb, b) ==
    {i \in DOMAIN cmds :
        /\ cmds[i].op \in {"lb_add", "lb_del"}
        /\ cmds[i].lb = lb
        /\ cmds[i].raw_backend = b
        /\ cmds[i].fault = NoError}

Last(S) == CHOOSE i \in S : \A j \in S : j <= i

\* C17: for one owner and one backend address as the caller writes it
\* (IPv4 or IPv6), the later command decides: after an add followed by a
\* del the key is absent, and after two adds there is exactly one entry for
\* the address, holding the value of the later add.
C17_AddDelConsistent ==
    [][\A t \in Callers : \A lb \in MirroredLbs : \A b \in BackendIps :
          LET cmds == txn[t].cmds
              on == ActsOn(cmds, lb, b)
          IN (Commits(t) /\ txn'[t].inner = NoError /\ on # {})
             => LET c == cmds[Last(on)]
                    m == db'.lb[lb].ipm
                    entries == DOMAIN m \cap {b, <<"[">> \o b \o <<"]">>}
                IN /\ c.op = "lb_del" => entries = {}
                   /\ c.op = "lb_add"
                      => /\ entries = {NormalizedKey(b)}
                         /\ m[NormalizedKey(b)] =
                               JoinValue(c.port_name, c.src_ip)]_vars

\* an IPv6 backend added and then deleted in one transaction, after an
\* earlier transaction had added it with another source address
C17_Witness ==
    /\ txn["T1"].st = "Committed"
    /\ Len(txn["T1"].cmds) = 2
    /\ txn["T1"].cmds[1].op = "lb_add"
    /\ txn["T1"].cmds[1].raw_backend = BackendV6
    /\ txn["T1"].cmds[1].lb = "lb1"
    /\ txn["T1"].cmds[1].fault = NoError
    /\ txn["T1"].cmds[2] = lb_del_ip_port_mapping("lb1", BackendV6)
    /\ Bracket(BackendV6) \in DOMAIN txn["T1"].atOpen.lb["lb1"].ipm
    /\ DOMAIN db.lb["lb1"].ipm = {}

----------------------------------------------------------------------------
(* Claims on the connection handles (SpecIdl) *)

\* C12: stopping the southbound handle is idempotent: a stop that follows
\* a stop, or that comes before any start, changes nothing, and the
\* connection, the notify handler and the IDL session are each released
\* once per acquisition (the handler and the session are acquired once, by
\* __init__; a connection by each start).
C12_StopIsIdempotent ==
    /\ idl.shutdowns <= 1
    /\ idl.closes <= 1
    /\ idl.conns_opened = 0 => idl.shutdowns = 0 /\ idl.closes = 0
    /\ idl.conns_stopped <= idl.conns_opened
    /\ ~idl.has_conn => idl.conns_stopped = idl.conns_opened

\* the tables each class is to monitor
MonitoredTables(kind) ==
    IF kind = "NB"
    THEN {"Logical_Switch", "Load_Balancer", "Load_Balancer_Health_Check",
          "Logical_Router", "Logical_Switch_Port", "Logical_Router_Port",
          "Gateway_Chassis", "NAT", "HA_Chassis_Group"}
    ELSE {"Load_Balancer", "Service_Monitor"}

\* C14: the construction of a handle never gives up on schema retrieval
\* while the server cannot be reached; no table is registered and no lock
\* is requested before the schema has been obtained; a constructed handle
\* has registered exactly the tables of TABLES, each once, and has
\* requested the lock iff a lock name was supplied.
C14_Bootstrap ==
    /\ idl.pc # "failed"
    /\ idl.pc = "get_helper" <=> ~idl.helper
    /\ ~idl.helper => idl.registered = <<>> /\ idl.lock = None
    /\ idl.pc = "constructed"
       => /\ {idl.registered[i] : i \in DOMAIN idl.registered}
                = MonitoredTables(idl.kind)
          /\ Len(idl.registered) = Cardinality(MonitoredTables(idl.kind))
          /\ idl.lock # None <=> idl.event_lock_name # None
          /\ idl.lock = idl.event_lock_name

C14_Witness ==
    /\ idl.pc = "constructed"
    /\ idl.kind = "NB"
    /\ idl.tries = MaxTries
    /\ Len(idl.registered) = 9
    /\ idl.lock = "octavia_lock"

----------------------------------------------------------------------------
(* Claims on the reads (SpecRead) *)

\* C15: is_col_present returns false, without raising, whenever the table
\* is not among the tables of the IDL, whatever the column name, and
\* otherwise true iff the column is in the schema of that table;
\* is_table_present is true iff the name is among those tables.
C15_Presence ==
    /\ reply.op = "is_table_present"
       => /\ reply.err = NoError
          /\ reply.result <=> reply.table \in DOMAIN tables
    /\ reply.op = "is_col_present"
       => /\ reply.err = NoError
          /\ reply.table \notin DOMAIN tables => reply.result = FALSE
          /\ reply.table \in DOMAIN tables
             => (reply.result <=> reply.col \in tables[reply.table].columns)

C15_Witness ==
    /\ reply.op = "is_col_present"
    /\ reply.table = "Load_Balancer_Health_Check"
    /\ reply.table \notin DOMAIN tables
    /\ reply.result = FALSE
    /\ reply.err = NoError

\* the mirrored rows of a table
RowsOf(table) == {tables[table].rows[i] : i \in DOMAIN tables[table].rows}

\* the rows a result gives, each once
Gives(result, rows) ==
    /\ {result[i]._row : i \in DOMAIN result} = rows
    /\ Len(result) = Cardinality(rows)

\* C16: find_lb_in_table(lb, table) returns exactly the rows of the table
\* whose load_balancer holds lb (an empty list, not an error, when there is
\* none), get_lrs returns every row of Logical_Router, and either read leaves
\* every mirrored row as it is.
C16_ReadsAreExactAndPure ==
    [][/\ reply'.op = "find_lb_in_table"
          => /\ reply'.err = NoError
             /\ Gives(reply'.result,
                      {r \in RowsOf(reply'.table) :
                          reply'.lb \in r.load_balancer})
             /\ tables' = tables
       /\ reply'.op = "get_lrs"
          => /\ reply'.err = NoError
             /\ Gives(reply'.result, RowsOf("Logical_Router"))
             /\ tables' = tables]_vars

C16_Witness ==
    /\ reply.op = "find_lb_in_table"
    /\ reply.lb = "lb2"
    /\ reply.result = <<>>
    /\ reply.err = NoError
    /\ Len(tables[reply.table].rows) = MaxRows
    /\ \E r \in RowsOf(reply.table) : "lb1" \in r.load_balancer

====
